---- MODULE Spec2Model ----
(***************************************************************************)
(* The portfolio skill matcher of the cold-email generator:                 *)
(*   app/portfolio.py  PortfolioProcessor.from_csv, Portfolio               *)
(*   app/main.py       SAMPLE_PORTFOLIO, find_matching_portfolio_items      *)
(* and, beside it, each under a specification of its own:                   *)
(*   app/utils.py      clean_text, validate_input, process_portfolio_data   *)
(*   app/chains.py     the SIGALRM timeout of the three LLM methods         *)
(*   app/main.py       extract_text_from_url                                *)
(*                                                                         *)
(* A Python str is a sequence of one-character strings, so that strip,      *)
(* lower, split and the substring test `in` are computed, not assumed.      *)
(* A Python value that may or may not be a str (a query element, a skills   *)
(* cell read by pandas) is a record [type, val].  A portfolio item is a     *)
(* reference to a dict object: self.portfolio and the lists of              *)
(* self.skills_index hold references to the same objects.                   *)
(***************************************************************************)
EXTENDS Integers, Sequences, FiniteSets, TLC

VARIABLES
    file,            \* the backing source at self.file_path
    portfolio,       \* self.portfolio
    skills_index,    \* self.skills_index, a dict in insertion order
    loaded,          \* load_portfolio has completed at least once
    op,              \* the call that has just returned, "none" once its caller went on
    skills,          \* the argument of the last matcher call
    extended,        \* query_links: what each loop iteration extended matching_items by
    matching_items,  \* the local of the last matcher call
    result,          \* the list query_links returned
    items,           \* the list find_matching_portfolio_items returned
    raised,          \* the last call raised to its caller
    writer,          \* a reload running beside the reader: where it stands
    todo,            \* that reload's build_skills_index: the items still to index
    fn,              \* the function of utils.py, chains.py or main.py under way or returned
    arg,             \* its argument
    ret,             \* what it returned
    pc,              \* where it stands
    alarm,           \* the process's SIGALRM timer: ticks left, 0 when none is pending
    tries            \* extract_text_from_url: what each request made so far produced

(* The state of the Portfolio and of its callers, and the state of the
   functions beside it. *)
matcher == <<file, portfolio, skills_index, loaded, op, skills, extended,
             matching_items, result, items, raised, writer, todo>>

beside == <<fn, arg, ret, pc, alarm, tries>>

vars == <<file, portfolio, skills_index, loaded, op, skills, extended,
          matching_items, result, items, raised, writer, todo,
          fn, arg, ret, pc, alarm, tries>>

---------------------------------------------------------------------------
(* Bounds of the model. *)
MaxRows == 2
MaxQuery == 2

(* Program constants. *)
Cap == 3
FallbackSize == 2

Min(a, b) == IF a < b THEN a ELSE b

---------------------------------------------------------------------------
(* Python values. *)
Str(s) == [type |-> "str", val |-> s]
None == [type |-> "NoneType", val |-> <<>>]
NaN == [type |-> "float", val |-> <<>>]
IsStr(v) == v.type = "str"

(* str.strip(), str.lower(), str.split(sep), and `needle in hay`. *)
Whitespace == {" ", "\t", "\n"}

UpperCase == <<"A","B","C","D","E","F","G","H","I","J","K","L","M",
               "N","O","P","Q","R","S","T","U","V","W","X","Y","Z">>
LowerCase == <<"a","b","c","d","e","f","g","h","i","j","k","l","m",
               "n","o","p","q","r","s","t","u","v","w","x","y","z">>

LowerChar(c) ==
    IF \E i \in 1..Len(UpperCase) : UpperCase[i] = c
    THEN LowerCase[CHOOSE i \in 1..Len(UpperCase) : UpperCase[i] = c]
    ELSE c

Lower(s) == [i \in 1..Len(s) |-> LowerChar(s[i])]

RECURSIVE LStrip(_)
LStrip(s) ==
    IF s # <<>> /\ Head(s) \in Whitespace THEN LStrip(Tail(s)) ELSE s

RECURSIVE RStrip(_)
RStrip(s) ==
    IF s # <<>> /\ s[Len(s)] \in Whitespace
    THEN RStrip(SubSeq(s, 1, Len(s) - 1))
    ELSE s

Strip(s) == RStrip(LStrip(s))

RECURSIVE Split(_, _)
Split(s, sep) ==
    IF \E i \in 1..Len(s) : s[i] = sep
    THEN LET i == CHOOSE k \in 1..Len(s) :
                      s[k] = sep /\ \A j \in 1..(k - 1) : s[j] # sep
         IN  <<SubSeq(s, 1, i - 1)>> \o Split(SubSeq(s, i + 1, Len(s)), sep)
    ELSE <<s>>

Contains(hay, needle) ==
    \E i \in 0..(Len(hay) - Len(needle)) :
        SubSeq(hay, i + 1, i + Len(needle)) = needle

RECURSIVE Flatten(_)
Flatten(seqs) ==
    IF seqs = <<>> THEN <<>> ELSE Head(seqs) \o Flatten(Tail(seqs))

---------------------------------------------------------------------------
(* The strings of create_default_portfolio, character by character. *)
Default1_project ==
    <<"E","-","c","o","m","m","e","r","c","e"," ","A","n","a","l","y","t","i","c",
      "s"," ","D","a","s","h","b","o","a","r","d">>
Default1_url ==
    <<"h","t","t","p","s",":","/","/","g","i","t","h","u","b",".","c","o","m","/",
      "a","t","l","i","q","/","e","c","o","m","m","e","r","c","e","-","a","n",
      "a","l","y","t","i","c","s">>
Default1_skills ==
    <<"p","y","t","h","o","n",",","d","a","t","a"," ","a","n","a","l","y","s","i",
      "s",",","v","i","s","u","a","l","i","z","a","t","i","o","n",",","d","a",
      "s","h","b","o","a","r","d">>
Default2_project ==
    <<"C","u","s","t","o","m","e","r"," ","S","e","g","m","e","n","t","a","t","i",
      "o","n"," ","E","n","g","i","n","e">>
Default2_url ==
    <<"h","t","t","p","s",":","/","/","g","i","t","h","u","b",".","c","o","m","/",
      "a","t","l","i","q","/","c","u","s","t","o","m","e","r","-","s","e","g",
      "m","e","n","t","a","t","i","o","n">>
Default2_skills ==
    <<"m","a","c","h","i","n","e"," ","l","e","a","r","n","i","n","g",",","c","l",
      "u","s","t","e","r","i","n","g",",","p","y","t","h","o","n",",","d","a",
      "t","a"," ","s","c","i","e","n","c","e">>
Default3_project ==
    <<"I","n","v","e","n","t","o","r","y"," ","M","a","n","a","g","e","m","e","n",
      "t"," ","S","y","s","t","e","m">>
Default3_url ==
    <<"h","t","t","p","s",":","/","/","g","i","t","h","u","b",".","c","o","m","/",
      "a","t","l","i","q","/","i","n","v","e","n","t","o","r","y","-","m","a",
      "n","a","g","e","m","e","n","t">>
Default3_skills ==
    <<"j","a","v","a",",","d","a","t","a","b","a","s","e",",","a","p","i"," ","d",
      "e","v","e","l","o","p","m","e","n","t",",","b","a","c","k","e","n","d">>
Default4_project ==
    <<"S","a","l","e","s"," ","F","o","r","e","c","a","s","t","i","n","g"," ","T",
      "o","o","l">>
Default4_url ==
    <<"h","t","t","p","s",":","/","/","g","i","t","h","u","b",".","c","o","m","/",
      "a","t","l","i","q","/","s","a","l","e","s","-","f","o","r","e","c","a",
      "s","t">>
Default4_skills ==
    <<"p","r","e","d","i","c","t","i","v","e"," ","a","n","a","l","y","t","i","c",
      "s",",","t","i","m","e"," ","s","e","r","i","e","s",",","p","y","t","h",
      "o","n",",","s","t","a","t","i","s","t","i","c","s">>
Default5_project ==
    <<"H","R"," ","A","n","a","l","y","t","i","c","s"," ","D","a","s","h","b","o",
      "a","r","d">>
Default5_url ==
    <<"h","t","t","p","s",":","/","/","g","i","t","h","u","b",".","c","o","m","/",
      "a","t","l","i","q","/","h","r","-","a","n","a","l","y","t","i","c","s">>
Default5_skills ==
    <<"p","o","w","e","r"," ","b","i",",","d","a","t","a"," ","v","i","s","u","a",
      "l","i","z","a","t","i","o","n",",","a","n","a","l","y","t","i","c","s",
      ",","r","e","p","o","r","t","i","n","g">>
(* The strings of SAMPLE_PORTFOLIO. *)
Sample1_project ==
    <<"D","a","t","a"," ","A","n","a","l","y","t","i","c","s"," ","D","a","s","h",
      "b","o","a","r","d">>
Sample1_url ==
    <<"h","t","t","p","s",":","/","/","g","i","t","h","u","b",".","c","o","m","/",
      "u","s","e","r","/","d","a","t","a","-","a","n","a","l","y","t","i","c",
      "s">>
Sample1_skills ==
    <<"p","y","t","h","o","n",",","d","a","t","a"," ","a","n","a","l","y","s","i",
      "s",",","v","i","s","u","a","l","i","z","a","t","i","o","n",",","d","a",
      "s","h","b","o","a","r","d">>
Sample2_project ==
    <<"C","u","s","t","o","m","e","r"," ","S","e","g","m","e","n","t","a","t","i",
      "o","n">>
Sample2_url ==
    <<"h","t","t","p","s",":","/","/","g","i","t","h","u","b",".","c","o","m","/",
      "u","s","e","r","/","c","u","s","t","o","m","e","r","-","s","e","g","m",
      "e","n","t","a","t","i","o","n">>
Sample2_skills ==
    <<"m","a","c","h","i","n","e"," ","l","e","a","r","n","i","n","g",",","c","l",
      "u","s","t","e","r","i","n","g",",","p","y","t","h","o","n",",","d","a",
      "t","a"," ","s","c","i","e","n","c","e">>
Sample3_project ==
    <<"I","n","v","e","n","t","o","r","y"," ","S","y","s","t","e","m">>
Sample3_url ==
    <<"h","t","t","p","s",":","/","/","g","i","t","h","u","b",".","c","o","m","/",
      "u","s","e","r","/","i","n","v","e","n","t","o","r","y","-","s","y","s",
      "t","e","m">>
Sample3_skills ==
    <<"j","a","v","a",",","d","a","t","a","b","a","s","e",",","a","p","i"," ","d",
      "e","v","e","l","o","p","m","e","n","t",",","b","a","c","k","e","n","d">>
Sample4_project ==
    <<"F","o","r","e","c","a","s","t","i","n","g"," ","T","o","o","l">>
Sample4_url ==
    <<"h","t","t","p","s",":","/","/","g","i","t","h","u","b",".","c","o","m","/",
      "u","s","e","r","/","f","o","r","e","c","a","s","t","i","n","g">>
Sample4_skills ==
    <<"p","r","e","d","i","c","t","i","v","e"," ","a","n","a","l","y","t","i","c",
      "s",",","t","i","m","e"," ","s","e","r","i","e","s",",","p","y","t","h",
      "o","n",",","s","t","a","t","i","s","t","i","c","s">>

Item(project, url, skillsCell) ==
    [project |-> project, url |-> url, skills |-> skillsCell]

(* The dict objects: those of create_default_portfolio's literal list (D),
   those of SAMPLE_PORTFOLIO (S), and the records pandas makes of the rows a
   CSV source may hold (R).  Row1 and Row2 overlap in skill "a", and "a" is
   part of "ab"; Row3 shares Row2's url, and its skills repeat a token and
   hold an empty one; Row4's skills cell is empty, which pandas reads as NaN. *)
DefaultPortfolio == <<"D1", "D2", "D3", "D4", "D5">>
SAMPLE_PORTFOLIO == <<"S1", "S2", "S3", "S4">>
Rows == {"R1", "R2", "R3", "R4"}

ItemIds == Rows \cup {"D1", "D2", "D3", "D4", "D5", "S1", "S2", "S3", "S4"}

ItemOf ==
    [id \in ItemIds |->
        CASE id = "D1" -> Item(Default1_project, Default1_url, Str(Default1_skills))
          [] id = "D2" -> Item(Default2_project, Default2_url, Str(Default2_skills))
          [] id = "D3" -> Item(Default3_project, Default3_url, Str(Default3_skills))
          [] id = "D4" -> Item(Default4_project, Default4_url, Str(Default4_skills))
          [] id = "D5" -> Item(Default5_project, Default5_url, Str(Default5_skills))
          [] id = "S1" -> Item(Sample1_project, Sample1_url, Str(Sample1_skills))
          [] id = "S2" -> Item(Sample2_project, Sample2_url, Str(Sample2_skills))
          [] id = "S3" -> Item(Sample3_project, Sample3_url, Str(Sample3_skills))
          [] id = "S4" -> Item(Sample4_project, Sample4_url, Str(Sample4_skills))
          [] id = "R1" -> Item(<<"P","1">>, <<"u","1">>, Str(<<"a",","," ","B">>))
          [] id = "R2" -> Item(<<"P","2">>, <<"u","2">>, Str(<<"a","b",",","a">>))
          [] id = "R3" -> Item(<<"P","3">>, <<"u","2">>,
                               Str(<<"a","b","c",",",",","A","B","C">>))
          [] id = "R4" -> Item(<<"P","4">>, <<"u","4">>, NaN)]

RECURSIVE SeqsUpTo(_, _)
SeqsUpTo(S, n) ==
    IF n = 0 THEN {<<>>}
    ELSE LET shorter == SeqsUpTo(S, n - 1)
         IN  shorter \cup {Append(q, x) : q \in shorter, x \in S}

(* The source: absent, present but unreadable by pandas (an empty or
   malformed file), or a table of rows (possibly none: a header only). *)
Files ==
    {[kind |-> "missing", rows |-> <<>>], [kind |-> "unreadable", rows |-> <<>>]}
    \cup {[kind |-> "table", rows |-> r] : r \in SeqsUpTo(Rows, MaxRows)}

Tokens ==
    { Str(<<" ","A"," ">>), Str(<<"a","b">>), Str(<<"z","z">>), Str(<<>>), None,
      Str(<<"p","y","t","h","o","n">>) }

Queries == SeqsUpTo(Tokens, MaxQuery)

---------------------------------------------------------------------------
(* PortfolioProcessor.from_csv: the records of the table, [] when the file
   is absent or pandas raises. *)
from_csv(f) == IF f.kind = "table" THEN f.rows ELSE <<>>

(* self.skills_index: a dict, kept as its (key, value) pairs in insertion
   order, which is the order `for index_skill in self.skills_index` visits. *)
HasKey(index, k) == \E i \in 1..Len(index) : index[i].key = k
Lookup(index, k) == index[CHOOSE i \in 1..Len(index) : index[i].key = k].items

(* Line 98: the tokens of one item's skills string. *)
SkillsOf(cell) ==
    LET raw == Split(cell.val, ",")
    IN  [i \in 1..Len(raw) |-> Lower(Strip(raw[i]))]

(* The dict objects are never written to, so the tokens of each are worked
   out once. *)
SkillTokens ==
    [id \in ItemIds |->
        IF IsStr(ItemOf[id].skills) THEN SkillsOf(ItemOf[id].skills) ELSE <<>>]

ItemSkills(item) == SkillTokens[item]

(* Lines 102-104 for one skill of one item. *)
AddSkill(index, skill, item) ==
    IF HasKey(index, skill)
    THEN [i \in 1..Len(index) |->
             IF index[i].key = skill
             THEN [key |-> skill, items |-> Append(index[i].items, item)]
             ELSE index[i]]
    ELSE Append(index, [key |-> skill, items |-> <<item>>])

RECURSIVE AddSkills(_, _, _)
AddSkills(index, sk, item) ==
    IF sk = <<>> THEN index
    ELSE AddSkills(AddSkill(index, Head(sk), item), Tail(sk), item)

(* build_skills_index from an empty dict: the index built, and whether
   item["skills"].split raised (the cell is not a str); the index then
   holds what the items before the failing one added. *)
RECURSIVE BuildFrom(_, _)
BuildFrom(index, pf) ==
    IF pf = <<>> THEN [index |-> index, raised |-> FALSE]
    ELSE IF "skills" \notin DOMAIN ItemOf[Head(pf)] THEN BuildFrom(index, Tail(pf))
    ELSE IF ~IsStr(ItemOf[Head(pf)].skills) THEN [index |-> index, raised |-> TRUE]
    ELSE BuildFrom(AddSkills(index, ItemSkills(Head(pf)), Head(pf)), Tail(pf))

(* build_skills_index with the fault of leaving out line 93, the reset of
   self.skills_index. *)
build_skills_index_NoReset(pf) == BuildFrom(skills_index, pf)

build_skills_index(pf) == BuildFrom(<<>>, pf)

(* create_default_portfolio: the (portfolio, skills_index) it leaves, and
   whether it raised. *)
create_default_portfolio ==
    [portfolio |-> DefaultPortfolio,
     index |-> build_skills_index(DefaultPortfolio).index,
     raised |-> build_skills_index(DefaultPortfolio).raised]

(* load_portfolio with the fault of having no try/except around lines
   43-52: what build_skills_index raises reaches the caller. *)
load_portfolio_NoHandler(f) ==
    LET pf == IF f.kind = "missing"
              THEN create_default_portfolio.portfolio
              ELSE from_csv(f)
        built == build_skills_index(pf)
    IN  [portfolio |-> pf, index |-> built.index, raised |-> built.raised]

(* load_portfolio: the (portfolio, skills_index) it leaves, and whether it
   raised.  The index is built at line 52 from whatever lines 46 or 49 left
   in self.portfolio; if that raises, the handler at lines 53-56 installs
   the default portfolio. *)
load_portfolio(f) ==
    LET pf == IF f.kind = "missing"
              THEN create_default_portfolio.portfolio
              ELSE from_csv(f)
        built == build_skills_index(pf)
    IN  IF built.raised
        THEN create_default_portfolio
        ELSE [portfolio |-> pf, index |-> built.index, raised |-> FALSE]

---------------------------------------------------------------------------
(* Portfolio.query_links *)

(* Line 117: the links returned for an empty query. *)
DefaultLinks(pf) == [i \in 1..Min(FallbackSize, Len(pf)) |-> ItemOf[pf[i]].url]

(* NoMatchLinks with the fault of returning the whole catalog, not its
   first two items. *)
NoMatchLinksAll(pf) == [i \in 1..Len(pf) |-> ItemOf[pf[i]].url]

(* Line 144, the else branch: the links returned when nothing matched. *)
NoMatchLinks(pf) == [i \in 1..Min(FallbackSize, Len(pf)) |-> ItemOf[pf[i]].url]

(* Line 120: s.strip().lower() raises AttributeError for an element that is
   not a str. *)
NormalizeRaises(q) == \E i \in 1..Len(q) : ~IsStr(q[i])
NormalizeSkillNoLower(s) == Strip(s)    \* NormalizeSkill with .lower() left out
NormalizeSkill(s) == Lower(Strip(s))
NormalizeSkills(q) == [i \in 1..Len(q) |-> NormalizeSkill(q[i].val)]

(* PartialMatches with the fault of testing one direction only. *)
PartialMatchesOneWay(index, skill) ==
    Flatten([i \in 1..Len(index) |->
                IF Contains(index[i].key, skill) THEN index[i].items ELSE <<>>])

(* Lines 130-132: the items of every index key that contains the skill or
   is contained in it, in key order. *)
PartialMatches(index, skill) ==
    Flatten([i \in 1..Len(index) |->
                IF Contains(index[i].key, skill) \/ Contains(skill, index[i].key)
                THEN index[i].items
                ELSE <<>>])

(* MatchesFor with a fault: the substring scan whether or not the skill is
   a key; and the scan in addition to the key's own items. *)
MatchesForScanOnly(index, skill) == PartialMatches(index, skill)

MatchesForKeyAndScan(index, skill) ==
    IF HasKey(index, skill)
    THEN Lookup(index, skill) \o PartialMatches(index, skill)
    ELSE PartialMatches(index, skill)

(* Lines 126-132: what one iteration of the loop extends matching_items by. *)
MatchesFor(index, skill) ==
    IF HasKey(index, skill)
    THEN Lookup(index, skill)
    ELSE PartialMatches(index, skill)

(* Line 141: the display string of an item. *)
Render(item) == ItemOf[item].project \o <<":", " ">> \o ItemOf[item].url

(* Lines 135-141: the display strings of the items whose url was not seen. *)
RECURSIVE UniqueFrom(_, _)
UniqueFrom(its, seen) ==
    IF its = <<>> THEN <<>>
    ELSE IF ItemOf[Head(its)].url \in seen THEN UniqueFrom(Tail(its), seen)
    ELSE <<Render(Head(its))>>
         \o UniqueFrom(Tail(its), seen \cup {ItemOf[Head(its)].url})

(* UniqueLinks with the fault of cutting the pool to three before the
   duplicates go. *)
UniqueLinksCutFirst(its) == UniqueFrom(SubSeq(its, 1, Min(Cap, Len(its))), {})

UniqueLinks(its) == UniqueFrom(its, {})

(* Line 144: unique_links[:3] if unique_links else the first two urls. *)
TruncateNot(links) == links    \* Truncate with the [:3] left out
Truncate(links) == SubSeq(links, 1, Min(Cap, Len(links)))

ShapeResult(unique_links, pf) ==
    IF unique_links # <<>> THEN Truncate(unique_links) ELSE NoMatchLinks(pf)

(* The whole call: the locals it computes and the list it returns. *)
query_links(pf, index, q) ==
    IF q = <<>>
    THEN [raised |-> FALSE, extended |-> <<>>, result |-> DefaultLinks(pf)]
    ELSE IF NormalizeRaises(q)
    THEN [raised |-> TRUE, extended |-> <<>>, result |-> <<>>]
    ELSE LET normalized_skills == NormalizeSkills(q)
             ext == [i \in 1..Len(q) |-> MatchesFor(index, normalized_skills[i])]
         IN  [raised |-> FALSE, extended |-> ext,
              result |-> ShapeResult(UniqueLinks(Flatten(ext)), pf)]

---------------------------------------------------------------------------
(* main.py find_matching_portfolio_items *)

(* Line 354: the tokens of a sample item. *)
SampleSkillTokens ==
    [id \in {SAMPLE_PORTFOLIO[i] : i \in 1..Len(SAMPLE_PORTFOLIO)} |->
        LET raw == Split(ItemOf[id].skills.val, ",")
        IN  [i \in 1..Len(raw) |-> Lower(Strip(raw[i]))]]

SampleItemSkills(item) == SampleSkillTokens[item]

(* Line 351 *)
SampleNormalize(q) == [i \in 1..Len(q) |-> Lower(Strip(q[i].val))]

(* Lines 357-361: some query skill contains, or is contained in, some skill
   of the item. *)
SampleItemMatches(item, normalized) ==
    LET item_skills == SampleItemSkills(item)
    IN  \E i \in 1..Len(normalized) :
            \E j \in 1..Len(item_skills) :
                \/ Contains(item_skills[j], normalized[i])
                \/ Contains(normalized[i], item_skills[j])

(* Lines 353-361 *)
SampleMatching(normalized) ==
    LET keep(item) == SampleItemMatches(item, normalized)
    IN  SelectSeq(SAMPLE_PORTFOLIO, keep)

(* Line 348, and the handler's line 369 *)
SampleDefault == SubSeq(SAMPLE_PORTFOLIO, 1, Min(FallbackSize, Len(SAMPLE_PORTFOLIO)))

(* Line 364 *)
SampleShape(matching) ==
    IF matching # <<>> THEN SubSeq(matching, 1, Min(Cap, Len(matching)))
    ELSE SubSeq(SAMPLE_PORTFOLIO, 1, Min(FallbackSize, Len(SAMPLE_PORTFOLIO)))

(* find_matching_portfolio_items with the fault of having no handler: the
   exception of line 351 reaches the caller.  Then the whole call: an
   exception at line 351 (an element that is not a str) is caught at
   line 367. *)
find_matching_portfolio_items_NoHandler(q) ==
    IF q = <<>> THEN [raised |-> FALSE, matching |-> <<>>, result |-> SampleDefault]
    ELSE IF \E i \in 1..Len(q) : ~IsStr(q[i])
    THEN [raised |-> TRUE, matching |-> <<>>, result |-> <<>>]
    ELSE LET m == SampleMatching(SampleNormalize(q))
         IN  [raised |-> FALSE, matching |-> m, result |-> SampleShape(m)]

find_matching_portfolio_items(q) ==
    IF q = <<>> THEN [raised |-> FALSE, matching |-> <<>>, result |-> SampleDefault]
    ELSE IF \E i \in 1..Len(q) : ~IsStr(q[i])
    THEN [raised |-> FALSE, matching |-> <<>>, result |-> SampleDefault]
    ELSE LET m == SampleMatching(SampleNormalize(q))
         IN  [raised |-> FALSE, matching |-> m, result |-> SampleShape(m)]

---------------------------------------------------------------------------
(* The state machine: a Portfolio object after __init__ and the calls made
   on it and on find_matching_portfolio_items, one at a time (the program is
   single-threaded).  A call runs to its return, where its argument, locals
   and returned value are in the state; then its caller goes on and they
   are gone. *)

(* No reload is under way. *)
NoWriter == [ctx |-> "idle", at |-> "idle"]

(* No function beside the Portfolio has been called. *)
NoCallBeside ==
    /\ fn = "none"
    /\ arg = None
    /\ ret = None
    /\ pc = "idle"
    /\ alarm = 0
    /\ tries = <<>>

Init ==
    /\ file \in Files
    /\ portfolio = <<>>
    /\ skills_index = <<>>
    /\ loaded = FALSE
    /\ op = "none"
    /\ skills = <<>>
    /\ extended = <<>>
    /\ matching_items = <<>>
    /\ result = <<>>
    /\ items = <<>>
    /\ raised = FALSE
    /\ writer = NoWriter
    /\ todo = <<>>
    /\ NoCallBeside

NoCallLocals ==
    /\ skills' = <<>>
    /\ extended' = <<>>
    /\ matching_items' = <<>>
    /\ result' = <<>>
    /\ items' = <<>>

LoadPortfolio ==
    /\ op = "none"
    /\ portfolio' = load_portfolio(file).portfolio
    /\ skills_index' = load_portfolio(file).index
    /\ loaded' = TRUE
    /\ op' = "load_portfolio"
    /\ raised' = load_portfolio(file).raised
    /\ NoCallLocals
    /\ UNCHANGED <<file, writer, todo>>
    /\ UNCHANGED beside

CreateDefaultPortfolio ==
    /\ op = "none"
    /\ portfolio' = create_default_portfolio.portfolio
    /\ skills_index' = create_default_portfolio.index
    /\ op' = "create_default_portfolio"
    /\ raised' = create_default_portfolio.raised
    /\ NoCallLocals
    /\ UNCHANGED <<file, loaded, writer, todo>>
    /\ UNCHANGED beside

BuildSkillsIndex ==
    /\ op = "none"
    /\ skills_index' = build_skills_index(portfolio).index
    /\ raised' = build_skills_index(portfolio).raised
    /\ op' = "build_skills_index"
    /\ NoCallLocals
    /\ UNCHANGED <<file, portfolio, loaded, writer, todo>>
    /\ UNCHANGED beside

(* QueryLinks with the fault of keeping what the first skill matched in the
   index, under that skill, for later calls. *)
QueryLinksCaching ==
    /\ op = "none"
    /\ \E q \in Queries :
          LET call == query_links(portfolio, skills_index, q)
          IN  /\ skills' = q
              /\ extended' = call.extended
              /\ matching_items' = Flatten(call.extended)
              /\ result' = call.result
              /\ raised' = call.raised
              /\ skills_index' =
                    IF call.extended = <<>> \/ call.extended[1] = <<>>
                          \/ HasKey(skills_index, NormalizeSkill(q[1].val))
                    THEN skills_index
                    ELSE Append(skills_index,
                                [key |-> NormalizeSkill(q[1].val),
                                 items |-> call.extended[1]])
    /\ items' = <<>>
    /\ op' = "query_links"
    /\ UNCHANGED <<file, portfolio, loaded, writer, todo>>
    /\ UNCHANGED beside

QueryLinks ==
    /\ op = "none"
    /\ \E q \in Queries :
          LET call == query_links(portfolio, skills_index, q)
          IN  /\ skills' = q
              /\ extended' = call.extended
              /\ matching_items' = Flatten(call.extended)
              /\ result' = call.result
              /\ raised' = call.raised
    /\ items' = <<>>
    /\ op' = "query_links"
    /\ UNCHANGED <<file, portfolio, skills_index, loaded, writer, todo>>
    /\ UNCHANGED beside

FindMatchingPortfolioItems ==
    /\ op = "none"
    /\ \E q \in Queries :
          LET call == find_matching_portfolio_items(q)
          IN  /\ skills' = q
              /\ matching_items' = call.matching
              /\ items' = call.result
              /\ raised' = call.raised
    /\ extended' = <<>>
    /\ result' = <<>>
    /\ op' = "find_matching_portfolio_items"
    /\ UNCHANGED <<file, portfolio, skills_index, loaded, writer, todo>>
    /\ UNCHANGED beside

CallerContinues ==
    /\ op # "none"
    /\ op' = "none"
    /\ raised' = FALSE
    /\ NoCallLocals
    /\ UNCHANGED <<file, portfolio, skills_index, loaded, writer, todo>>
    /\ UNCHANGED beside

Next ==
    \/ LoadPortfolio
    \/ CreateDefaultPortfolio
    \/ BuildSkillsIndex
    \/ QueryLinks
    \/ FindMatchingPortfolioItems
    \/ CallerContinues

Spec == Init /\ [][Next]_vars

---------------------------------------------------------------------------
(* A reload running beside a reader: load_portfolio (or
   create_default_portfolio) taken statement by statement, with query_links
   calls of another thread between its steps.  writer.ctx says who called:
   "try46" is create_default_portfolio called at line 46, "try52" the
   build_skills_index of line 52, "handler" the create_default_portfolio of
   line 56, "direct" a create_default_portfolio call of its own; writer.at is
   the line to run next.  op, skills, extended, matching_items, result and
   raised are the reader's. *)

(* Lines 42-49: load_portfolio is entered; it assigns the rows read, or goes
   on to create_default_portfolio. *)
ReloadBegin ==
    /\ writer = NoWriter
    /\ IF file.kind = "missing"
       THEN /\ writer' = [ctx |-> "try46", at |-> "60"]
            /\ UNCHANGED portfolio
       ELSE /\ writer' = [ctx |-> "try52", at |-> "93"]
            /\ portfolio' = from_csv(file)
    /\ UNCHANGED <<file, skills_index, loaded, op, skills, extended,
                   matching_items, result, items, raised, todo>>
    /\ UNCHANGED beside

(* create_default_portfolio is entered by a caller of its own. *)
DefaultBegin ==
    /\ writer = NoWriter
    /\ writer' = [ctx |-> "direct", at |-> "60"]
    /\ UNCHANGED <<file, portfolio, skills_index, loaded, op, skills, extended,
                   matching_items, result, items, raised, todo>>
    /\ UNCHANGED beside

(* Line 60: self.portfolio = [...] *)
Reload60 ==
    /\ writer.at = "60"
    /\ portfolio' = DefaultPortfolio
    /\ writer' = [writer EXCEPT !.at = "93"]
    /\ UNCHANGED <<file, skills_index, loaded, op, skills, extended,
                   matching_items, result, items, raised, todo>>
    /\ UNCHANGED beside

(* Line 93: self.skills_index = {}, and the loop of line 95 starts. *)
Reload93 ==
    /\ writer.at = "93"
    /\ skills_index' = <<>>
    /\ todo' = portfolio
    /\ writer' = [writer EXCEPT !.at = "95"]
    /\ UNCHANGED <<file, portfolio, loaded, op, skills, extended,
                   matching_items, result, items, raised>>
    /\ UNCHANGED beside

(* Lines 95-104 for one item; after the last one build_skills_index returns,
   to line 52 when line 46 had called, else out of the reload.  A skills cell
   that is not a str raises: to the handler at line 56 inside the try, else
   out of the reload. *)
Reload95 ==
    /\ writer.at = "95"
    /\ IF todo = <<>>
       THEN /\ writer' = IF writer.ctx = "try46"
                         THEN [ctx |-> "try52", at |-> "93"]
                         ELSE NoWriter
            /\ loaded' = (loaded \/ writer.ctx \in {"try52", "handler"})
            /\ UNCHANGED <<skills_index, todo>>
       ELSE IF "skills" \notin DOMAIN ItemOf[Head(todo)]
       THEN /\ todo' = Tail(todo)
            /\ UNCHANGED <<skills_index, loaded, writer>>
       ELSE IF ~IsStr(ItemOf[Head(todo)].skills)
       THEN /\ writer' = IF writer.ctx \in {"try46", "try52"}
                         THEN [ctx |-> "handler", at |-> "60"]
                         ELSE NoWriter
            /\ todo' = <<>>
            /\ UNCHANGED <<skills_index, loaded>>
       ELSE /\ skills_index' = AddSkills(skills_index, ItemSkills(Head(todo)), Head(todo))
            /\ todo' = Tail(todo)
            /\ UNCHANGED <<loaded, writer>>
    /\ UNCHANGED <<file, portfolio, op, skills, extended,
                   matching_items, result, items, raised>>
    /\ UNCHANGED beside

NextReload ==
    \/ ReloadBegin
    \/ DefaultBegin
    \/ Reload60
    \/ Reload93
    \/ Reload95
    \/ QueryLinks
    \/ CallerContinues

SpecReload == Init /\ [][NextReload]_vars

---------------------------------------------------------------------------
(* utils.py clean_text *)

(* Bound of the model: the pieces an input text is made of. *)
MaxText == 4

(* Line 21: the length a text is cut to. *)
TextLimit == 100000

Digits == {"0","1","2","3","4","5","6","7","8","9"}
Letters == {LowerCase[i] : i \in 1..Len(LowerCase)} \cup {UpperCase[i] : i \in 1..Len(UpperCase)}

(* Line 48: \w of the character class, and the class [\w\s.,!?:\-'"]. *)
WordChar(c) == c \in Letters \cup Digits \cup {"_"}

KeptChar(c) == WordChar(c) \/ c \in Whitespace \/ c \in {".", ",", "!", "?", ":", "-", "'", "\""}

(* The smallest position at or after from where pat occurs in s, 0 if none. *)
Find(s, pat, from) ==
    LET at == {i \in from..(Len(s) - Len(pat) + 1) : SubSeq(s, i, i + Len(pat) - 1) = pat}
    IN  IF at = {} THEN 0 ELSE CHOOSE i \in at : \A j \in at : i <= j

(* str.split() without argument: the words between runs of whitespace. *)
RECURSIVE Words(_)
Words(s) ==
    LET t == LStrip(s)
        ws == {i \in 1..Len(t) : t[i] \in Whitespace}
        n == IF ws = {} THEN Len(t) + 1 ELSE CHOOSE i \in ws : \A j \in ws : i <= j
    IN  IF t = <<>> THEN <<>>
        ELSE <<SubSeq(t, 1, n - 1)>> \o Words(SubSeq(t, n, Len(t)))

(* sep.join(parts) *)
RECURSIVE Join(_, _)
Join(parts, sep) ==
    IF parts = <<>> THEN <<>>
    ELSE IF Len(parts) = 1 THEN parts[1]
    ELSE parts[1] \o sep \o Join(Tail(parts), sep)

(* re.sub(open.*?close, ' ', s) with DOTALL, and re.sub('<[^>]*?>', ' ', s)
   for open '<' and close '>': every leftmost span from an open to the
   nearest close after it becomes one space. *)
RECURSIVE SubSpans(_, _, _)
SubSpans(s, open, close) ==
    LET i == Find(s, open, 1)
        j == IF i = 0 THEN 0 ELSE Find(s, close, i + Len(open))
    IN  IF j = 0 THEN s
        ELSE SubSeq(s, 1, i - 1) \o <<" ">>
                 \o SubSpans(SubSeq(s, j + Len(close), Len(s)), open, close)

ScriptOpen == <<"<","s","c","r","i","p","t">>
ScriptClose == <<"<","/","s","c","r","i","p","t",">">>
StyleOpen == <<"<","s","t","y","l","e">>
StyleClose == <<"<","/","s","t","y","l","e",">">>

(* Lines 40-42: the fallback when BeautifulSoup raises. *)
RegexStrip(text) ==
    SubSpans(SubSpans(SubSpans(text, ScriptOpen, ScriptClose), StyleOpen, StyleClose),
             <<"<">>, <<">">>)

(* Line 28, the lxml parser: a '<' followed by a letter or '/' opens a tag
   that ends at the next '>' (at the end of the text when there is none: no
   input of the model has such a tag), any other '<' is text; the text
   between tags is one string; what follows <script> or <style> up to its
   closing tag is the element's content.  The result is the strings of the
   document outside script and style elements, in order (lines 31-32). *)
TagAt(s) ==
    /\ Len(s) >= 2
    /\ s[1] = "<"
    /\ s[2] \in Letters \cup {"/"}

TagEnd(s) == IF Find(s, <<">">>, 1) = 0 THEN Len(s) ELSE Find(s, <<">">>, 1)

RawOpen(tag) ==
    \/ tag = ScriptOpen \o <<">">>
    \/ tag = StyleOpen \o <<">">>

RawClose(tag) == IF tag = ScriptOpen \o <<">">> THEN ScriptClose ELSE StyleClose

RECURSIVE Strings(_, _)
Strings(s, cur) ==
    IF s = <<>> THEN <<cur>>
    ELSE IF TagAt(s)
    THEN LET e == TagEnd(s)
             tag == SubSeq(s, 1, e)
             rest == SubSeq(s, e + 1, Len(s))
             c == IF RawOpen(tag) THEN Find(rest, RawClose(tag), 1) ELSE 0
         IN  IF RawOpen(tag)
             THEN <<cur>> \o (IF c = 0 THEN <<>>
                              ELSE Strings(SubSeq(rest, c + Len(RawClose(tag)), Len(rest)), <<>>))
             ELSE <<cur>> \o Strings(rest, <<>>)
    ELSE Strings(Tail(s), Append(cur, Head(s)))

(* Line 35: soup.get_text(separator=' ', strip=True): the strings, each
   stripped, the empty ones left out, joined by one space. *)
GetText(text) ==
    LET stripped == [i \in 1..Len(Strings(text, <<>>)) |-> Strip(Strings(text, <<>>)[i])]
        nonempty(x) == x # <<>>
    IN  Join(SelectSeq(stripped, nonempty), <<" ">>)

(* Line 48: every character outside the class becomes a space. *)
RemoveProblematic(text) ==
    [i \in 1..Len(text) |-> IF KeptChar(text[i]) THEN text[i] ELSE " "]

(* Lines 26-42 with the fault of leaving the text as it is when
   BeautifulSoup raises; and lines 26-42: the text of the document, by
   BeautifulSoup or, when it raises (parser = "missing": lxml is not
   installed), by the regular expressions. *)
StripMarkupNoFallback(text, parser) ==
    IF parser = "lxml" THEN GetText(text) ELSE text

StripMarkup(text, parser) ==
    IF parser = "lxml" THEN GetText(text) ELSE RegexStrip(text)

(* clean_text: its returned str.  len(text) of line 13 raises for None, the
   handler's text.split() raises again and line 59 returns "". *)
clean_text(text, parser) ==
    IF ~IsStr(text) THEN Str(<<>>)
    ELSE IF Strip(text.val) = <<>> THEN Str(<<>>)
    ELSE LET cut == IF Len(text.val) > TextLimit
                    THEN SubSeq(text.val, 1, TextLimit)
                    ELSE text.val
             plain == StripMarkup(cut, parser)
             joined == Join(Words(plain), <<" ">>)
         IN  Str(Strip(RemoveProblematic(joined)))

(* The texts clean_text is given: up to MaxText pieces, each a tag, a word,
   white space, punctuation the class keeps or a character it does not. *)
Pieces ==
    { <<"<","p",">">>, <<"<","/","p",">">>,
      <<"<","s","c","r","i","p","t",">">>, <<"<","/","s","c","r","i","p","t",">">>,
      <<"T">>, <<"H">>, <<" ">>, <<" ","<"," ">>, <<">">>, <<"!">>, <<"@">>, <<"_">> }

(* The argument is one clean_text may be given: a str, or None. *)
IsText(v) == IsStr(v) \/ v = None

Parsers == {"lxml", "missing"}

---------------------------------------------------------------------------
(* utils.py validate_input and process_portfolio_data *)

List(l) == [type |-> "list", val |-> l]
Dict(d) == [type |-> "dict", val |-> d]

(* The call raised this exception to its caller. *)
Raises(e) == [type |-> e, val |-> <<>>]

(* `not v` is false. *)
Truthy(v) ==
    IF v.type = "dict" THEN DOMAIN v.val # {}
    ELSE IF v.type \in {"str", "list"} THEN v.val # <<>>
    ELSE FALSE

UpperChar(c) ==
    IF \E i \in 1..Len(LowerCase) : LowerCase[i] = c
    THEN UpperCase[CHOOSE i \in 1..Len(LowerCase) : LowerCase[i] = c]
    ELSE c

(* str.capitalize() *)
Capitalize(s) ==
    [i \in 1..Len(s) |-> IF i = 1 THEN UpperChar(s[i]) ELSE LowerChar(s[i])]

(* Line 81 *)
required_fields == <<"title", "company">>

FieldName ==
    [title |-> <<"t","i","t","l","e">>, company |-> <<"c","o","m","p","a","n","y">>]

NoDataProvided == <<"N","o"," ","d","a","t","a"," ","p","r","o","v","i","d","e","d">>
IsRequired == <<" ","i","s"," ","r","e","q","u","i","r","e","d">>

(* Line 83: data.get(field) is missing or falsy. *)
Missing(data, field) ==
    IF field \in DOMAIN data.val THEN ~Truthy(data.val[field]) ELSE TRUE

(* validate_input: the list of errors; a str or list that is not empty has
   no get and line 83 raises. *)
validate_input(data) ==
    IF ~Truthy(data) THEN List(<<NoDataProvided>>)
    ELSE IF data.type # "dict" THEN Raises("AttributeError")
    ELSE LET missing(field) == Missing(data, field)
             absent == SelectSeq(required_fields, missing)
         IN  List([i \in 1..Len(absent) |-> Capitalize(FieldName[absent[i]]) \o IsRequired])

(* Lines 94-96: the skills of the skills field. *)
DirectSkills(data) ==
    IF "skills" \in DOMAIN data.val
    THEN LET raw == Split(data.val["skills"].val, ",")
         IN  {Lower(Strip(raw[i])) : i \in 1..Len(raw)}
    ELSE {}

(* Lines 99-104: the skills after the colon of each project, between '&'. *)
ProjectSkills(data) ==
    IF "projects" \in DOMAIN data.val
    THEN LET raw == Split(data.val["projects"].val, ",")
             of(project) ==
                 LET project_skills == Split(project, ":")
                 IN  IF Len(project_skills) > 1
                     THEN {Lower(Strip(Split(project_skills[2], "&")[k])) :
                              k \in 1..Len(Split(project_skills[2], "&"))}
                     ELSE {}
         IN  UNION {of(raw[i]) : i \in 1..Len(raw)}
    ELSE {}

(* list(skills): a set has no order of its own. *)
Orderings(S) ==
    {s \in [1..Cardinality(S) -> S] : \A i, j \in 1..Cardinality(S) : s[i] = s[j] => i = j}

(* process_portfolio_data: the values it may return.  `in` raises for None,
   .split for a field that is not a str. *)
process_portfolio_data(data) ==
    IF data.type # "dict" THEN {Raises("TypeError")}
    ELSE IF \E f \in {"skills", "projects"} \cap DOMAIN data.val : ~IsStr(data.val[f])
    THEN {Raises("AttributeError")}
    ELSE {List(s) : s \in Orderings(DirectSkills(data) \cup ProjectSkills(data))}

(* The arguments validate_input is given. *)
Strs == {Str(<<>>), Str(<<" ">>), Str(<<" "," ","t","e","s","t"," "," ">>), Str(<<"x">>)}

ValidateInputs ==
    {None, List(<<>>), List(<<Str(<<"x">>)>>)}
    \cup Strs
    \cup {Dict([f \in fs |-> v[f]]) :
             fs \in SUBSET {"title", "company"},
             v \in [{"title", "company"} -> {None, Str(<<>>), Str(<<"x">>)}]}

(* The arguments process_portfolio_data is given: the record of
   tests/test_utils.py with 0 to 2 experience items, and records with a
   skills or a projects field. *)
Experience ==
    [role |-> Str(<<"D">>), company |-> Str(<<"T">>), duration |-> Str(<<"2">>)]

PortfolioData ==
    {None}
    \cup {Dict([name |-> Str(<<"J","D">>), position |-> Str(<<"S","E">>),
                experience |-> List([i \in 1..n |-> Dict(Experience)])]) : n \in 0..2}
    \cup {Dict([f \in fs |-> v[f]]) :
             fs \in SUBSET {"skills", "projects"},
             v \in [{"skills", "projects"} ->
                      {None, Str(<<"a",","," ","B",",","a">>),
                       Str(<<"p",":","x","&"," ","A",",","q">>)}]}

(* No Portfolio takes part: the functions below use none. *)
NoPortfolio ==
    /\ file = [kind |-> "missing", rows |-> <<>>]
    /\ portfolio = <<>>
    /\ skills_index = <<>>
    /\ loaded = FALSE
    /\ op = "none"
    /\ skills = <<>>
    /\ extended = <<>>
    /\ matching_items = <<>>
    /\ result = <<>>
    /\ items = <<>>
    /\ raised = FALSE
    /\ writer = NoWriter
    /\ todo = <<>>

(* The functions of utils.py, each applied once to an argument. *)
InitUtils ==
    /\ NoPortfolio
    /\ fn = "none"
    /\ \/ \E n \in 0..MaxText : \E ps \in [1..n -> Pieces] : arg = Str(Flatten(ps))
       \/ arg \in ValidateInputs
       \/ arg \in PortfolioData
    /\ ret = None
    /\ pc = "idle"
    /\ alarm = 0
    /\ tries = <<>>

CleanText ==
    /\ fn = "none"
    /\ IsText(arg)
    /\ \E parser \in Parsers :
          /\ ret' = clean_text(arg, parser)
          /\ pc' = parser
    /\ fn' = "clean_text"
    /\ UNCHANGED <<arg, alarm, tries>>
    /\ UNCHANGED matcher

ValidateInput ==
    /\ fn = "none"
    /\ arg \in ValidateInputs
    /\ ret' = validate_input(arg)
    /\ fn' = "validate_input"
    /\ UNCHANGED <<arg, pc, alarm, tries>>
    /\ UNCHANGED matcher

ProcessPortfolioData ==
    /\ fn = "none"
    /\ arg \in PortfolioData
    /\ ret' \in process_portfolio_data(arg)
    /\ fn' = "process_portfolio_data"
    /\ UNCHANGED <<arg, pc, alarm, tries>>
    /\ UNCHANGED matcher

NextUtils ==
    \/ CleanText
    \/ ValidateInput
    \/ ProcessPortfolioData

SpecUtils == InitUtils /\ [][NextUtils]_vars

---------------------------------------------------------------------------
(* chains.py: EmailChain.generate_email, Chain.extract_jobs and
   Chain.write_mail under the SIGALRM timer of the process.  alarm is the
   number of seconds until the pending alarm fires, 0 when none is pending;
   a second of time is a step.  pc is "invoke" while the LLM call of a
   method runs, "returned" when the method has returned to its caller,
   "interrupted" when timeout_handler raised TimeoutError in the caller. *)

(* signal.alarm(60) *)
AlarmSeconds == 60

Methods == {"generate_email", "extract_jobs", "write_mail"}

(* The arguments: the text of extract_jobs and the job of write_mail are
   used before the alarm is armed (len(text), job.get), and raise there when
   they are None. *)
ChainArgs(method) ==
    IF method = "generate_email" THEN {Str(<<"x">>)}
    ELSE IF method = "extract_jobs" THEN {None, Str(<<"x">>)}
    ELSE {None, Dict([title |-> Str(<<"x">>)])}

RaisesBeforeAlarm(method, a) ==
    /\ method \in {"extract_jobs", "write_mail"}
    /\ a = None

(* What the LLM call hands back, and the return statement it leads to: a
   result that is falsy, a dict, a list of dicts, or a list of something
   else (job.get raises, line 226) in extract_jobs; a content that is empty,
   shorter than 50 characters, or longer in the other two. *)
Results(method) ==
    IF method = "extract_jobs" THEN {"none", "dict", "list", "not_jobs"}
    ELSE {"empty", "short", "content"}

ReturnOf(method, res) ==
    IF method = "extract_jobs"
    THEN IF res = "none" THEN List(<<>>)
         ELSE IF res = "not_jobs" THEN List(<<"Information Not Available">>)
         ELSE List(<<"jobs">>)
    ELSE IF res = "content" THEN Str(<<"content">>)
         ELSE Str(<<"Error: Failed to generate a proper email.">>)

OnTimeout(method) ==
    IF method = "extract_jobs" THEN List(<<"Job Information Extraction Timed Out">>)
    ELSE Str(<<"Email generation timed out.">>)

OnError(method) ==
    IF method = "extract_jobs" THEN List(<<"Information Not Available">>)
    ELSE Str(<<"Error generating email.">>)

InitChains ==
    /\ NoPortfolio
    /\ NoCallBeside

(* The method is entered; unless its argument raises first, or
   signal.signal does (it raises ValueError outside the main thread), the
   alarm is armed (a pending one is replaced) and the LLM call starts. *)
Call ==
    /\ pc = "idle"
    /\ \E method \in Methods : \E a \in ChainArgs(method) : \E main_thread \in BOOLEAN :
          /\ fn' = method
          /\ arg' = a
          /\ IF RaisesBeforeAlarm(method, a) \/ ~main_thread
             THEN /\ ret' = OnError(method)
                  /\ pc' = "returned"
                  /\ UNCHANGED alarm
             ELSE /\ ret' = None
                  /\ pc' = "invoke"
                  /\ alarm' = AlarmSeconds
    /\ UNCHANGED tries
    /\ UNCHANGED matcher

(* A second passes. *)
Tick ==
    /\ alarm > 1
    /\ alarm' = alarm - 1
    /\ UNCHANGED <<fn, arg, ret, pc, tries>>
    /\ UNCHANGED matcher

(* The alarm fires: timeout_handler raises TimeoutError where the process
   stands, in the LLM call (the method's handler returns) or in the caller. *)
AlarmFires ==
    /\ alarm = 1
    /\ alarm' = 0
    /\ IF pc = "invoke"
       THEN /\ ret' = OnTimeout(fn)
            /\ pc' = "returned"
       ELSE /\ pc' = "interrupted"
            /\ UNCHANGED ret
    /\ UNCHANGED <<fn, arg, tries>>
    /\ UNCHANGED matcher

(* The LLM call returns: signal.alarm(0), then the result is examined. *)
InvokeReturns ==
    /\ pc = "invoke"
    /\ \E res \in Results(fn) : ret' = ReturnOf(fn, res)
    /\ alarm' = 0
    /\ pc' = "returned"
    /\ UNCHANGED <<fn, arg, tries>>
    /\ UNCHANGED matcher

(* The LLM call raises an exception of its own: the handler of Exception
   returns. *)
InvokeRaises ==
    /\ pc = "invoke"
    /\ ret' = OnError(fn)
    /\ pc' = "returned"
    /\ UNCHANGED <<fn, arg, alarm, tries>>
    /\ UNCHANGED matcher

(* The caller goes on to where it may call again. *)
CallerResumes ==
    /\ pc \in {"returned", "interrupted"}
    /\ pc' = "idle"
    /\ UNCHANGED <<fn, arg, ret, alarm, tries>>
    /\ UNCHANGED matcher

NextChains ==
    \/ Call
    \/ Tick
    \/ AlarmFires
    \/ InvokeReturns
    \/ InvokeRaises
    \/ CallerResumes

SpecChains == InitChains /\ [][NextChains]_vars

---------------------------------------------------------------------------
(* main.py extract_text_from_url.  A text is known by where it comes from
   (the request made with the user agent of that number, or a fallback) and
   by its length. *)

(* Line 248, line 253, and the characters of the f-string of
   get_fallback_job_text outside its fields (lines 62-72). *)
MinText == 200
MaxReturn == 8000
TemplateLen == 224

(* Lines 192-196: the number of user agents. *)
UserAgents == 3

HttpsPrefix == <<"h","t","t","p","s",":","/","/">>
HttpPrefix == <<"h","t","t","p",":","/","/">>

StartsWith(s, prefix) ==
    /\ Len(s) >= Len(prefix)
    /\ SubSeq(s, 1, Len(prefix)) = prefix

(* Lines 187-188 *)
WithPrefix(url) ==
    IF StartsWith(url, HttpPrefix) \/ StartsWith(url, HttpsPrefix)
    THEN url
    ELSE HttpsPrefix \o url

(* Lines 53-72: get_fallback_job_text; every field has a default that is
   not empty, so the text is longer than the template. *)
get_fallback_job_text(src) ==
    [type |-> "str", src |-> src, attempt |-> 0, len |-> TemplateLen + 1]

(* Lines 258-268: the handler of the site named in the url, else the sample.
   handle_naukri_url catches what its parsing of the url raises and returns
   a fallback text either way. *)
SiteFallback(url) ==
    IF Contains(Lower(url), <<"g","l","a","s","s","d","o","o","r">>)
    THEN get_fallback_job_text("glassdoor")
    ELSE IF Contains(Lower(url), <<"n","a","u","k","r","i">>)
    THEN get_fallback_job_text("naukri")
    ELSE IF Contains(Lower(url), <<"l","i","n","k","e","d","i","n">>)
    THEN get_fallback_job_text("linkedin")
    ELSE get_fallback_job_text("sample")

(* What one request produces: an exception (of requests, of raise_for_status
   or of the parser), an empty body, or a body whose text has some length. *)
TextLens == {0, MinText - 1, MinText, MaxReturn, MaxReturn + 1}

Outcomes ==
    {[kind |-> "raises", len |-> 0], [kind |-> "empty", len |-> 0]}
    \cup {[kind |-> "text", len |-> n] : n \in TextLens}

(* Lines 231 and 248: the attempt ends the loop. *)
Succeeds(o) == o.kind = "text" /\ o.len >= MinText

Urls ==
    { None,
      Str(<<"x",".","i","o">>),
      Str(HttpsPrefix \o <<"x",".","i","o">>),
      Str(HttpPrefix \o <<"G","l","a","s","s","d","o","o","r">>),
      Str(<<"n","a","u","k","r","i",".","c","o","m">>),
      Str(<<"L","i","n","k","e","d","I","n">>),
      Str(<<"l","i","n","k","e","d","i","n","/","n","a","u","k","r","i">>) }

InitExtract ==
    /\ NoPortfolio
    /\ NoCallBeside

(* Lines 183-196: the call; url.startswith raises for a url that is not a
   str, and the handler of line 269 returns the sample. *)
ExtractBegin ==
    /\ pc = "idle"
    /\ fn = "none"
    /\ \E url \in Urls :
          /\ arg' = url
          /\ IF IsStr(url)
             THEN /\ pc' = "attempt"
                  /\ UNCHANGED ret
             ELSE /\ pc' = "returned"
                  /\ ret' = get_fallback_job_text("sample")
    /\ fn' = "extract_text_from_url"
    /\ UNCHANGED <<alarm, tries>>
    /\ UNCHANGED matcher

(* Attempt with the fault of having no handler inside the loop: what a
   request raises reaches the handler of line 269. *)
AttemptNoHandler ==
    /\ pc = "attempt"
    /\ Len(tries) < UserAgents
    /\ \E o \in Outcomes :
          /\ tries' = Append(tries, o)
          /\ IF Succeeds(o)
             THEN /\ ret' = [type |-> "str", src |-> "attempt", attempt |-> Len(tries) + 1,
                              len |-> Min(o.len, MaxReturn)]
                  /\ pc' = "returned"
             ELSE IF o.kind = "raises"
             THEN /\ ret' = get_fallback_job_text("sample")
                  /\ pc' = "returned"
             ELSE UNCHANGED <<ret, pc>>
    /\ UNCHANGED <<fn, arg, alarm>>
    /\ UNCHANGED matcher

(* Lines 226-255: one turn of the loop, with the next user agent. *)
Attempt ==
    /\ pc = "attempt"
    /\ Len(tries) < UserAgents
    /\ \E o \in Outcomes :
          /\ tries' = Append(tries, o)
          /\ IF Succeeds(o)
             THEN /\ ret' = [type |-> "str", src |-> "attempt", attempt |-> Len(tries) + 1,
                              len |-> Min(o.len, MaxReturn)]
                  /\ pc' = "returned"
             ELSE UNCHANGED <<ret, pc>>
    /\ UNCHANGED <<fn, arg, alarm>>
    /\ UNCHANGED matcher

(* Lines 257-268: the loop is over without a return. *)
ExtractFallback ==
    /\ pc = "attempt"
    /\ Len(tries) = UserAgents
    /\ ret' = SiteFallback(WithPrefix(arg.val))
    /\ pc' = "returned"
    /\ UNCHANGED <<fn, arg, alarm, tries>>
    /\ UNCHANGED matcher

NextExtract ==
    \/ ExtractBegin
    \/ Attempt
    \/ ExtractFallback

SpecExtract == InitExtract /\ [][NextExtract]_vars

---------------------------------------------------------------------------
(* What the claims speak of, stated apart from the definitions above. *)

Url(item) == ItemOf[item].url
Display(item) == ItemOf[item].project \o <<":", " ">> \o ItemOf[item].url

(* A token trimmed and lower-cased. *)
Trimmed(s) ==
    LET inside == {i \in 1..Len(s) : s[i] \notin {" ", "\t", "\n"}}
    IN  IF inside = {} THEN <<>>
        ELSE SubSeq(s, CHOOSE i \in inside : \A j \in inside : i <= j,
                       CHOOSE i \in inside : \A j \in inside : i >= j)
TrimLower(s) == Lower(Trimmed(s))
TrimLowerAll(q) == [i \in 1..Len(q) |-> Str(TrimLower(q[i].val))]

(* query_links has returned a list. *)
Returned == op = "query_links" /\ ~raised

(* The token matches a key of the index, exactly or as a substring either
   way round. *)
TokenMatches(index, t) ==
    \E k \in 1..Len(index) :
        \/ index[k].key = t
        \/ Contains(index[k].key, t)
        \/ Contains(t, index[k].key)

NoTokenMatches ==
    \A i \in 1..Len(skills) : ~TokenMatches(skills_index, TrimLower(skills[i].val))

(* The positions of a pool that hold the first item of their url, and how
   many such positions come up to p. *)
FirstOfUrl(pool, p) == \A r \in 1..(p - 1) : Url(pool[r]) # Url(pool[p])
Firsts(pool) == {p \in 1..Len(pool) : FirstOfUrl(pool, p)}
Rank(pool, p) == Cardinality({r \in Firsts(pool) : r <= p})

(* res is the first three items of the pool that differ in url, in pool
   order, each as "{project}: {url}". *)
FirstThreeOf(pool, res) ==
    /\ Len(res) = Min(3, Cardinality(Firsts(pool)))
    /\ \A p \in Firsts(pool) :
          Rank(pool, p) <= 3 => res[Rank(pool, p)] = Display(pool[p])

(* C1: the list returned by query_links, and the one returned by
   find_matching_portfolio_items, has at most 3 elements, whatever the query
   and the catalog. *)
C1_BoundedOutput ==
    /\ op = "query_links" => Len(result) <= 3
    /\ op = "find_matching_portfolio_items" => Len(items) <= 3

(* A query whose pool holds more than three urls was answered with three. *)
C1_Witness ==
    /\ Returned
    /\ Cardinality({Url(matching_items[p]) : p \in 1..Len(matching_items)}) > 3
    /\ Len(result) = 3

(* C2: once load_portfolio has completed, whatever the source, every list
   query_links returns holds at least one portfolio reference. *)
C2_NeverZeroReferences ==
    (loaded /\ Returned) => Len(result) >= 1

(* C3: for an empty query, and for a query none of whose tokens matches a
   key, query_links returns the first min(2, |catalog|) catalog entries in
   catalog order, and the two cases return the same list. *)
C3_FallbackSlice ==
    (Returned /\ (skills = <<>> \/ NoTokenMatches)) =>
        /\ Len(result) = Min(2, Len(portfolio))
        /\ \A i \in 1..Len(result) : result[i] = Url(portfolio[i])
        /\ result = query_links(portfolio, skills_index, <<>>).result

(* An unmatched, non-empty query on a catalog of more than two entries. *)
C3_Witness ==
    /\ Returned
    /\ skills # <<>>
    /\ NoTokenMatches
    /\ Len(portfolio) > 2
    /\ result = <<Url(portfolio[1]), Url(portfolio[2])>>

(* C4: the fallback results (empty query, unmatched query) are rendered as
   "{project}: {url}", like the matched ones. *)
C4_FallbackRendered ==
    (Returned /\ (skills = <<>> \/ NoTokenMatches)) =>
        \A i \in 1..Len(result) : result[i] = Display(portfolio[i])

(* C5: when the pool is not empty, query_links returns the first min(3, n)
   of the pool's n entries that differ in url, in pool order, each as
   "{project}: {url}": duplicates are dropped before the cut to three. *)
C5_MatchedResult ==
    (Returned /\ matching_items # <<>>) => FirstThreeOf(matching_items, result)

(* A pool with a duplicate among its first three entries and more than
   three urls in all: cutting first would lose an entry. *)
C5_Witness ==
    /\ Returned
    /\ Len(matching_items) > 3
    /\ \E p \in 2..3 : ~FirstOfUrl(matching_items, p)
    /\ Cardinality(Firsts(matching_items)) > 3
    /\ Len(result) = 3

(* The token t of the query is a key and no other token matches. *)
OnlyExact(t) ==
    /\ HasKey(skills_index, t)
    /\ \A i \in 1..Len(skills) :
          \/ TrimLower(skills[i].val) = t
          \/ ~TokenMatches(skills_index, TrimLower(skills[i].val))

(* C6: if a query token is a key of the index and no other token matches,
   the result is made of that key's entries in index order (A, then B),
   and of nothing the substring tier would add. *)
C6_ExactPrecedence ==
    Returned =>
        \A n \in 1..Len(skills) :
            OnlyExact(TrimLower(skills[n].val)) =>
                LET entries == Lookup(skills_index, TrimLower(skills[n].val))
                IN  /\ FirstThreeOf(entries, result)
                    /\ (Len(entries) >= 2 /\ Url(entries[1]) # Url(entries[2])) =>
                          /\ result[1] = Display(entries[1])
                          /\ result[2] = Display(entries[2])

(* The key has two entries A, B, and another key contains it; the query
   holds the key and a second token, which matches nothing. *)
C6_Witness ==
    /\ Returned
    /\ \E k \in 1..Len(skills_index) :
          /\ OnlyExact(skills_index[k].key)
          /\ \E i \in 1..Len(skills) : TrimLower(skills[i].val) = skills_index[k].key
          /\ Len(skills_index[k].items) = 2
          /\ result = <<Display(skills_index[k].items[1]),
                        Display(skills_index[k].items[2])>>
          /\ \E i \in 1..Len(skills) : TrimLower(skills[i].val) # skills_index[k].key
          /\ \E j \in 1..Len(skills_index) :
                /\ j # k
                /\ Contains(skills_index[j].key, skills_index[k].key)

(* The entries some token of the query hits as a key. *)
ExactEntries ==
    {e \in ItemIds :
        \E i \in 1..Len(skills) :
            /\ HasKey(skills_index, TrimLower(skills[i].val))
            /\ \E p \in 1..Len(Lookup(skills_index, TrimLower(skills[i].val))) :
                  Lookup(skills_index, TrimLower(skills[i].val))[p] = e}

(* C7: in the pool, every entry found by an exact hit of some token comes
   before any entry found only by the substring tier, whatever the order of
   the tokens. *)
C7_ExactTierFirst ==
    Returned =>
        \A q \in 1..Len(matching_items) :
            matching_items[q] \notin ExactEntries =>
                \A e \in ExactEntries :
                    \E p \in 1..(q - 1) : matching_items[p] = e

(* C8: the result for a query is the result for the same query with each
   token trimmed and lower-cased. *)
C8_Normalization ==
    Returned =>
        result = query_links(portfolio, skills_index, TrimLowerAll(skills)).result

(* A query with a token that is not in normal form, answered with matches. *)
C8_Witness ==
    /\ Returned
    /\ skills # TrimLowerAll(skills)
    /\ matching_items # <<>>
    /\ result # <<>>

(* The link is the url u, or the display string of an item of url u. *)
RefersTo(link, u) ==
    \/ link = u
    \/ \E item \in ItemIds : Url(item) = u /\ link = Display(item)

(* C9: no two elements of a returned list refer to the same url, on the
   matched path and on both fallback paths. *)
C9_DistinctUrls ==
    Returned =>
        \A i, j \in 1..Len(result) :
            i # j => ~\E item \in ItemIds :
                        /\ RefersTo(result[i], Url(item))
                        /\ RefersTo(result[j], Url(item))

(* C10: a token that is a key of the index adds the entries of that key to
   the pool and nothing else: the substring tier is not consulted for it. *)
C10_ExactOnly ==
    (Returned /\ skills # <<>>) =>
        /\ Len(extended) = Len(skills)
        /\ \A i \in 1..Len(skills) :
              HasKey(skills_index, TrimLower(skills[i].val)) =>
                  extended[i] = Lookup(skills_index, TrimLower(skills[i].val))

(* A token that is a key, while another key that contains it holds an entry
   the token's own key does not. *)
C10_Witness ==
    /\ Returned
    /\ \E i \in 1..Len(skills) :
          LET t == TrimLower(skills[i].val)
          IN  /\ t # <<>>
              /\ HasKey(skills_index, t)
              /\ extended[i] = Lookup(skills_index, t)
              /\ \E j \in 1..Len(skills_index) :
                    /\ skills_index[j].key # t
                    /\ Contains(skills_index[j].key, t)
                    /\ \E p \in 1..Len(skills_index[j].items) :
                          \A r \in 1..Len(extended[i]) :
                              extended[i][r] # skills_index[j].items[p]

(* The keys (by position) that the token is a substring of, or that are a
   substring of the token; and the number of entries they hold together. *)
RelatedKeys(index, t) ==
    {k \in 1..Len(index) :
        \E a \in 0..Len(index[k].key), b \in 0..Len(t) :
            \/ /\ a + Len(t) <= Len(index[k].key)
               /\ \A c \in 1..Len(t) : index[k].key[a + c] = t[c]
            \/ /\ b + Len(index[k].key) <= Len(t)
               /\ \A c \in 1..Len(index[k].key) : t[b + c] = index[k].key[c]}

RECURSIVE EntriesIn(_, _)
EntriesIn(index, K) ==
    IF K = {} THEN 0
    ELSE LET k == CHOOSE x \in K : TRUE
         IN  Len(index[k].items) + EntriesIn(index, K \ {k})

(* C11: for a token that is not a key, the substring tier adds the entries
   of every key the token is part of or that is part of the token, and of
   no other key. *)
C11_SubstringTier ==
    (Returned /\ skills # <<>>) =>
        \A i \in 1..Len(skills) :
            LET t == TrimLower(skills[i].val)
                hit == RelatedKeys(skills_index, t)
            IN  ~HasKey(skills_index, t) =>
                    /\ Len(extended[i]) = EntriesIn(skills_index, hit)
                    /\ \A p \in 1..Len(extended[i]) :
                          \E k \in hit : \E r \in 1..Len(skills_index[k].items) :
                              skills_index[k].items[r] = extended[i][p]
                    /\ \A k \in hit : \A r \in 1..Len(skills_index[k].items) :
                          \E p \in 1..Len(extended[i]) :
                              extended[i][p] = skills_index[k].items[r]

(* A token that is no key and is part of a longer key ("ab" in "database"),
   with other keys around that are unrelated to it. *)
C11_Witness ==
    /\ Returned
    /\ \E i \in 1..Len(skills) :
          LET t == TrimLower(skills[i].val)
          IN  /\ t # <<>>
              /\ ~HasKey(skills_index, t)
              /\ extended[i] # <<>>
              /\ \E k \in RelatedKeys(skills_index, t) :
                    Len(skills_index[k].key) > Len(t)
              /\ \E k \in 1..Len(skills_index) :
                    k \notin RelatedKeys(skills_index, t)

(* C12: query_links raises nothing, whatever the elements of the query,
   None included. *)
C12_NoException ==
    op = "query_links" => ~raised

(* The tokens that are empty once trimmed. *)
EmptyToken(v) == IsStr(v) /\ TrimLower(v.val) = <<>>

(* C13: a token that is empty after normalization adds nothing to the pool,
   so a query of such tokens only is answered with the fallback. *)
C13_EmptyTokenAddsNothing ==
    (Returned /\ skills # <<>>) =>
        /\ \A i \in 1..Len(skills) : EmptyToken(skills[i]) => extended[i] = <<>>
        /\ (\A i \in 1..Len(skills) : EmptyToken(skills[i])) =>
              result = query_links(portfolio, skills_index, <<>>).result

(* C14: whatever the source, the catalog load_portfolio leaves has at
   least one entry. *)
C14_NonEmptyCatalog ==
    op = "load_portfolio" => Len(portfolio) >= 1

(* C15: load_portfolio returns without raising, whatever goes wrong while
   the source is read or the index is built from its rows. *)
C15_LoaderNeverRaises ==
    op = "load_portfolio" => ~raised

(* The source held a row whose skills cell is not a str: building the index
   raised, and the loader returned with the default portfolio. *)
C15_Witness ==
    /\ op = "load_portfolio"
    /\ ~raised
    /\ file.kind = "table"
    /\ \E i \in 1..Len(file.rows) : ~IsStr(ItemOf[file.rows[i]].skills)
    /\ portfolio = DefaultPortfolio

(* How often x occurs in the sequence s. *)
Count(s, x) == Cardinality({i \in 1..Len(s) : s[i] = x})

(* C16: for every catalog entry E and every token T of its skills, the
   index list of T holds E exactly once (once for each time E is in the
   catalog), also when the skills string of E repeats T. *)
C16_IndexCompleteness ==
    \A p \in 1..Len(portfolio) :
        \A n \in 1..Len(ItemSkills(portfolio[p])) :
            LET T == ItemSkills(portfolio[p])[n]
            IN  T # <<>> =>
                    /\ HasKey(skills_index, T)
                    /\ Count(Lookup(skills_index, T), portfolio[p])
                           = Count(portfolio, portfolio[p])

(* C17: no key of the index is the empty string, and every key is trimmed
   and in lower case. *)
C17_NoEmptyKey ==
    \A k \in 1..Len(skills_index) :
        /\ skills_index[k].key # <<>>
        /\ skills_index[k].key = TrimLower(skills_index[k].key)

(* The tokens of a catalog in the order build_skills_index meets them, each
   with the entry it belongs to. *)
TokenList(pf) ==
    Flatten([p \in 1..Len(pf) |->
                [n \in 1..Len(ItemSkills(pf[p])) |->
                    [token |-> ItemSkills(pf[p])[n], item |-> pf[p]]]])

FirstAt(tl, key) ==
    CHOOSE n \in 1..Len(tl) :
        tl[n].token = key /\ \A m \in 1..(n - 1) : tl[m].token # key

(* The index is the one a build from scratch makes of the catalog: its keys
   are the catalog's tokens, each once, in the order first met; each key's
   list holds the entries advertising it, in catalog order, and is not
   empty. *)
IndexBuiltFrom(pf, index) ==
    LET tl == TokenList(pf)
        has(key) == \E n \in 1..Len(tl) : tl[n].token = key
    IN  /\ \A a, b \in 1..Len(index) : a # b => index[a].key # index[b].key
        /\ \A n \in 1..Len(tl) : \E k \in 1..Len(index) : index[k].key = tl[n].token
        /\ \A k \in 1..Len(index) :
              LET mine(e) == e.token = index[k].key
                  own == SelectSeq(tl, mine)
              IN  /\ index[k].items # <<>>
                  /\ index[k].items = [n \in 1..Len(own) |-> own[n].item]
        /\ \A a, b \in 1..Len(index) :
              (a < b /\ has(index[a].key) /\ has(index[b].key)) =>
                  FirstAt(tl, index[a].key) < FirstAt(tl, index[b].key)

(* C18: after any sequence of completed load_portfolio,
   create_default_portfolio and build_skills_index calls, skills_index is
   the index built from scratch from the current portfolio. *)
C18_IndexOfCurrentCatalog ==
    op \in {"load_portfolio", "create_default_portfolio", "build_skills_index"} =>
        IndexBuiltFrom(portfolio, skills_index)

(* The default portfolio has replaced the rows loaded from the source, and
   the keys of those rows are gone from the index. *)
C18_Witness ==
    /\ op = "create_default_portfolio"
    /\ loaded
    /\ file.kind = "table"
    /\ file.rows # <<>>
    /\ \A i \in 1..Len(file.rows) : IsStr(ItemOf[file.rows[i]].skills)
    /\ portfolio = DefaultPortfolio
    /\ Len(skills_index) = 18
    /\ \A i \in 1..Len(file.rows) : \A p \in 1..Len(skills_index) :
          Count(skills_index[p].items, file.rows[i]) = 0

(* C19: whenever a query_links call of a reader runs while a reload is
   under way, the skills_index it reads is the one built from the portfolio
   it reads. *)
C19_AtomicSwap ==
    op = "query_links" => IndexBuiltFrom(portfolio, skills_index)

(* C20: a query_links call leaves portfolio and skills_index as they were,
   whatever the query, and the list it returns is the list the same query
   returns on the Portfolio as the call left it. *)
C20_ReadOnly ==
    [][(op = "none" /\ op' = "query_links") =>
          /\ portfolio' = portfolio
          /\ skills_index' = skills_index
          /\ raised' = query_links(portfolio', skills_index', skills').raised
          /\ result' = query_links(portfolio', skills_index', skills').result]_vars

C20_Witness ==
    /\ Returned
    /\ loaded
    /\ skills_index # <<>>
    /\ \E i \in 1..Len(skills) :
          /\ extended[i] # <<>>
          /\ ~HasKey(skills_index, TrimLower(skills[i].val))
    /\ result = query_links(portfolio, skills_index, skills).result

(* C25: find_matching_portfolio_items never raises to its caller: whatever
   the skills argument, elements that are not strings included, it returns
   between 1 and 3 items of SAMPLE_PORTFOLIO, and the first two of them when
   an element is not a string. *)
C25_MatcherNeverRaises ==
    op = "find_matching_portfolio_items" =>
        /\ ~raised
        /\ Len(items) \in 1..Cap
        /\ \A i \in 1..Len(items) :
              \E j \in 1..Len(SAMPLE_PORTFOLIO) : items[i] = SAMPLE_PORTFOLIO[j]
        /\ (\E i \in 1..Len(skills) : ~IsStr(skills[i])) =>
              items = <<SAMPLE_PORTFOLIO[1], SAMPLE_PORTFOLIO[2]>>

C25_Witness ==
    /\ op = "find_matching_portfolio_items"
    /\ \E i \in 1..Len(skills) : ~IsStr(skills[i])
    /\ \E i \in 1..Len(skills) : IsStr(skills[i])
    /\ Len(items) = 2

(* The texts made of words, white space and <p>, </p> tags only. *)
MarkupTexts ==
    {Str(Flatten(ps)) :
        ps \in SeqsUpTo({<<"<","p",">">>, <<"<","/","p",">">>, <<"T">>, <<"H">>, <<" ">>},
                        MaxText)}

(* The capital letters of a text (the tags of the model are in small
   letters), and the number of runs of them. *)
Capitals(s) ==
    LET capital(c) == \E i \in 1..Len(UpperCase) : UpperCase[i] = c
    IN  SelectSeq(s, capital)

Runs(s) ==
    Cardinality({i \in 1..Len(s) :
        /\ Capitals(<<s[i]>>) # <<>>
        /\ (i = 1 \/ Capitals(<<s[i - 1]>>) = <<>>)})

SingleSpaced(s) ==
    /\ s = Strip(s)
    /\ \A i \in 1..(Len(s) - 1) : ~(s[i] = " " /\ s[i + 1] = " ")

(* C21: clean_text returns "" for an empty text, its output never holds a
   '<' or a '>', and for a text of words and tags the output is the words of
   the text in their order, one space between two of them, and nothing of
   the tags. *)
C21_StripsMarkup ==
    fn = "clean_text" =>
        /\ (~IsStr(arg) \/ Strip(arg.val) = <<>>) => ret = Str(<<>>)
        /\ \A i \in 1..Len(ret.val) : ret.val[i] \notin {"<", ">"}
        /\ arg \in MarkupTexts =>
              /\ \A i \in 1..Len(ret.val) : ret.val[i] \in {"T", "H", " "}
              /\ Capitals(ret.val) = Capitals(arg.val)
              /\ Len(Words(ret.val)) = Runs(arg.val)
              /\ SingleSpaced(ret.val)

C21_Witness ==
    /\ fn = "clean_text"
    /\ arg \in MarkupTexts
    /\ Contains(arg.val, <<"<","p",">">>)
    /\ Contains(arg.val, <<"<","/","p",">">>)
    /\ ret.val = <<"T", " ", "H">>

(* C22: the output of clean_text holds none of the characters ! @ _ and no
   two spaces in a row. *)
C22_SpecialCharacters ==
    fn = "clean_text" =>
        /\ \A i \in 1..Len(ret.val) : ret.val[i] \notin {"!", "@", "_"}
        /\ SingleSpaced(ret.val)

(* C23: validate_input returns a str argument without the white space
   around it, and "" for "" and for None, and does not raise. *)
C23_ValidateStrips ==
    fn = "validate_input" =>
        /\ IsStr(arg) => (IsStr(ret) /\ ret.val = Strip(arg.val))
        /\ arg = None => (IsStr(ret) /\ ret.val = <<>>)

(* C24: for a mapping with name, position and a list of experience items,
   process_portfolio_data returns a mapping with the same name and position
   and an experience of as many items. *)
C24_PreservesFields ==
    (fn = "process_portfolio_data" /\ arg.type = "dict"
        /\ {"name", "position", "experience"} \subseteq DOMAIN arg.val) =>
        /\ ret.type = "dict"
        /\ {"name", "position", "experience"} \subseteq DOMAIN ret.val
        /\ ret.val["name"] = arg.val["name"]
        /\ ret.val["position"] = arg.val["position"]
        /\ Len(ret.val["experience"].val) = Len(arg.val["experience"].val)

(* C26: when generate_email, extract_jobs or write_mail has returned, no
   alarm is pending. *)
C26_NoPendingAlarm ==
    (pc = "returned" /\ fn \in Methods) => alarm = 0

(* The site a url names, glassdoor before naukri before linkedin. *)
SiteOf(url) ==
    LET has(name) == Contains(Lower(url), name)
    IN  IF has(<<"g","l","a","s","s","d","o","o","r">>) THEN "glassdoor"
        ELSE IF has(<<"n","a","u","k","r","i">>) THEN "naukri"
        ELSE IF has(<<"l","i","n","k","e","d","i","n">>) THEN "linkedin"
        ELSE "sample"

(* C27: extract_text_from_url returns a str that is not empty; a text it
   returns from a request is that of the first request, in the order of the
   user agents, whose text has 200 characters or more, cut to 8000; and for
   a url that is a str a fallback text is returned only after three requests
   that all failed or gave a shorter text, and is that of the site the url
   names, else the sample. *)
C27_ExtractOrder ==
    (fn = "extract_text_from_url" /\ pc = "returned") =>
        /\ ret.type = "str"
        /\ ret.len > 0
        /\ ret.src = "attempt" =>
              /\ ret.attempt = Len(tries)
              /\ tries[ret.attempt].kind = "text"
              /\ tries[ret.attempt].len >= 200
              /\ ret.len = Min(tries[ret.attempt].len, 8000)
              /\ \A j \in 1..(ret.attempt - 1) :
                    tries[j].kind # "text" \/ tries[j].len < 200
        /\ (ret.src # "attempt" /\ IsStr(arg)) =>
              /\ Len(tries) = 3
              /\ \A j \in 1..3 : tries[j].kind # "text" \/ tries[j].len < 200
              /\ ret.src = SiteOf(arg.val)

C27_Witness ==
    /\ fn = "extract_text_from_url"
    /\ pc = "returned"
    /\ ret.src = "attempt"
    /\ ret.attempt = 3
    /\ tries[1].kind = "raises"
    /\ tries[2].kind = "text"
    /\ tries[3].len > 8000
    /\ ret.len = 8000

====
